---- MODULE Spec2Model ----
(***************************************************************************)
(* Model of prompt-scavenger's main.go: a linear driver that parses its    *)
(* arguments, opens a node client, decodes a namespace, submits a blob,    *)
(* fetches it back and forwards its payload to a chat-completion service.  *)
(*                                                                         *)
(* Go strings and []byte values are sequences of bytes (0..255).  The      *)
(* node and the completion service are the environment: each call's        *)
(* outcome is a nondeterministic choice.                                   *)
(***************************************************************************)
EXTENDS Integers, Sequences, FiniteSets, TLC

\* ------------------------------------------------------------------ bounds

\* Longest hex string tried as the namespace argument under SpecNS.
MaxHexLen == 6
\* Longest prompt argument.
MaxPromptLen == 2
\* Largest number of positional arguments of an invocation.
MaxArgs == 5
\* Largest inclusion height the node answers a submit with.
MaxHeight == 2

\* --------------------------------------------------------- library constants

\* share.NamespaceSize: 1 version byte + 28 id bytes.
NamespaceSize == 29
\* share.NamespaceVersionZeroIDSize: the user-chosen bytes of a version 0 id.
NamespaceVersionZeroIDSize == 10

\* ------------------------------------------------------------------ strings

\* ASCII codes of the characters the hex inputs are built from: '0' 'A' 'a' 'g'.
HexAlphabet == {48, 65, 97, 103}

SeqsUpTo(S, n) == UNION {[1..k -> S] : k \in 0..n}

\* []byte(s): a copy of the string's bytes.
StringToBytes(s) == [i \in 1..Len(s) |-> s[i]]

\* string(b): a copy of the slice's bytes.
BytesToString(b) == [i \in 1..Len(b) |-> b[i]]

\* ---------------------------------------------------------------- hex codec

\* encoding/hex fromHexChar: the nibble of one character, -1 when it is no
\* hex digit.  Both letter cases are digits.
fromHexChar(c) ==
  IF c >= 48 /\ c <= 57 THEN c - 48
  ELSE IF c >= 97 /\ c <= 102 THEN c - 97 + 10
  ELSE IF c >= 65 /\ c <= 70 THEN c - 65 + 10
  ELSE -1

\* encoding/hex DecodeString: pairs of digits to bytes; an invalid digit or
\* an odd length is an error.
hexDecodeString(s) ==
  LET n == Len(s) \div 2
      bad == \E i \in 1..Len(s) : fromHexChar(s[i]) = -1
  IN IF bad \/ Len(s) % 2 = 1
     THEN [err |-> TRUE, bytes |-> <<>>]
     ELSE [err |-> FALSE,
           bytes |-> [i \in 1..n |->
                        fromHexChar(s[2 * i - 1]) * 16 + fromHexChar(s[2 * i])]]

\* ---------------------------------------------------------------- namespace

\* bytes.Compare: -1, 0 or 1 by lexicographic order.
RECURSIVE bytesCompare(_, _)
bytesCompare(a, b) ==
  IF a = <<>> /\ b = <<>> THEN 0
  ELSE IF a = <<>> THEN -1
  ELSE IF b = <<>> THEN 1
  ELSE IF Head(a) < Head(b) THEN -1
  ELSE IF Head(a) > Head(b) THEN 1
  ELSE bytesCompare(Tail(a), Tail(b))

\* share.MaxPrimaryReservedNamespace: version 0, id 0x00..00FF.
MaxReservedNamespace ==
  [i \in 1..NamespaceSize |-> IF i = NamespaceSize THEN 255 ELSE 0]

\* Namespace.ValidateForBlob on a version 0 namespace: reserved namespaces
\* are refused.
ValidateForBlob(n) == bytesCompare(n, MaxReservedNamespace) = 1

\* share.NewBlobNamespaceV0: 1..10 id bytes, left-padded with zeros to the
\* 29-byte namespace (version 0), then validated as a blob namespace.
NewBlobNamespaceV0(id) ==
  IF Len(id) = 0 \/ Len(id) > NamespaceVersionZeroIDSize
  THEN [err |-> TRUE, ns |-> <<>>]
  ELSE LET off == NamespaceSize - Len(id)
           n == [i \in 1..NamespaceSize |-> IF i > off THEN id[i - off] ELSE 0]
       IN [err |-> ~ValidateForBlob(n), ns |-> n]

\* The decoding left out: the namespace built from the characters of the
\* argument instead of the bytes they spell.
createNamespaceIDRaw(nIDString) ==
  NewBlobNamespaceV0([i \in 1..Len(nIDString) |-> nIDString[i]])

\* createNamespaceID: hex-decode, then build the version 0 blob namespace.
createNamespaceID(nIDString) ==
  LET d == hexDecodeString(nIDString)
  IN IF d.err THEN [err |-> TRUE, ns |-> <<>>]
     ELSE NewBlobNamespaceV0(d.bytes)

\* --------------------------------------------------------------------- blob

\* The commitment of a blob: derived from its namespace and data alone.
CreateCommitment(ns, data) == <<ns, data>>

NoBlob == [namespace |-> <<>>, data |-> <<>>, commitment |-> <<>>]

\* blob.NewBlobV0: a blob of share version 0; empty data or a namespace that
\* is no blob namespace is an error.
NewBlobV0(ns, data) ==
  IF Len(data) = 0 \/ ~ValidateForBlob(ns)
  THEN [err |-> TRUE, blob |-> NoBlob]
  ELSE [err |-> FALSE,
        blob |-> [namespace |-> ns, data |-> data,
                  commitment |-> CreateCommitment(ns, data)]]

\* -------------------------------------------------------------------- inputs

ProgName == <<112>>
NodeIPs == {<<110>>}
ExtraArg == <<120>>
\* Bytes the prompts are built from: 'h' and 0xFF (no valid UTF-8).
PromptBytes == {104, 255}
Prompts == SeqsUpTo(PromptBytes, MaxPromptLen)
\* Namespace arguments of the full runs: "0a00", "0A00", "000a00", "0a"
\* (reserved), "" (no id bytes), "0g" (no hex), "0a0" (odd length).
NsArgs ==
  {<<48, 97, 48, 48>>, <<48, 65, 48, 48>>, <<48, 48, 48, 97, 48, 48>>,
   <<48, 97>>, <<>>, <<48, 103>>, <<48, 97, 48>>}
\* Every hex string tried under SpecNS.
HexInputs == SeqsUpTo(HexAlphabet, MaxHexLen)

\* os.Args of an invocation with k positional arguments.
ArgVector(n, h, p, k) ==
  LET full == <<ProgName, n, h, p>> \o [i \in 1..(MaxArgs - 3) |-> ExtraArg]
  IN SubSeq(full, 1, k + 1)

ArgVectors ==
  {ArgVector(n, h, p, k) : n \in NodeIPs, h \in NsArgs, p \in Prompts, k \in 0..MaxArgs}

\* The environment's OPENAI_KEY: unset, set to "", or set to a key.
EnvKeys ==
  {[set |-> FALSE, value |-> <<>>], [set |-> TRUE, value |-> <<>>],
   [set |-> TRUE, value |-> <<107>>]}

\* os.Getenv: the value, "" when the variable is unset.
Getenv(e) == IF e.set THEN e.value ELSE <<>>

\* What the completion service may answer with: the generated choices.
Answers == {<<>>, <<<<111>>>>, <<<<111>>, <<112>>>>}

\* --------------------------------------------------------------------- state

VARIABLES
  osArgs,        \* os.Args
  env,           \* OPENAI_KEY in the environment
  pc,            \* the statement of main about to run, or "exited"
  exitCode,      \* the process's exit status, -1 while it runs
  ctxCancelled,  \* cancel() has run
  clientOpen,    \* nodeclient.NewClient has returned a client
  clientClosed,  \* client.Close() has run
  namespaceID,   \* main's namespaceID
  createdBlob,   \* main's createdBlob
  height,        \* main's height
  fetchedBlob,   \* main's fetchedBlob
  calls,         \* the network calls issued so far, in order
  passed,        \* the steps that have succeeded so far, in order
  failed,        \* the steps that have failed so far, in order
  openaiClients, \* number of openai.NewClient calls
  requests,      \* the ChatCompletionRequests sent
  promptAnswer,  \* main's promptAnswer
  logs           \* the lines written through package log

vars ==
  <<osArgs, env, pc, exitCode, ctxCancelled, clientOpen, clientClosed,
    namespaceID, createdBlob, height, fetchedBlob, calls, passed, failed,
    openaiClients, requests, promptAnswer, logs>>

inputs == <<osArgs, env>>

Init ==
  /\ osArgs \in ArgVectors
  /\ env \in EnvKeys
  /\ pc = "main"
  /\ exitCode = -1
  /\ ctxCancelled = FALSE
  /\ clientOpen = FALSE
  /\ clientClosed = FALSE
  /\ namespaceID = <<>>
  /\ createdBlob = NoBlob
  /\ height = 0
  /\ fetchedBlob = NoBlob
  /\ calls = <<>>
  /\ passed = <<>>
  /\ failed = <<>>
  /\ openaiClients = 0
  /\ requests = <<>>
  /\ promptAnswer = <<>>
  /\ logs = <<>>

\* ---------------------------------------------------------------- exit paths

Line(isFatal, msg) == [fatal |-> isFatal, msg |-> msg]

\* log.Fatal / log.Fatalf: write the line, then os.Exit(1).  Deferred calls
\* do not run.
LogFatal(step, msg) ==
  /\ logs' = Append(logs, Line(TRUE, msg))
  /\ failed' = Append(failed, step)
  /\ exitCode' = 1
  /\ pc' = "exited"
  /\ UNCHANGED <<ctxCancelled, clientClosed>>

\* The deferred calls of main, run when main returns or panics:
\* client.Close() if it was deferred, then cancel().
RunDeferred ==
  /\ clientClosed' = clientOpen
  /\ ctxCancelled' = TRUE

\* The process ends by main returning (status 0) or by a run-time panic
\* (status 2); the deferred calls run in both cases.
EndWith(code) ==
  /\ RunDeferred
  /\ exitCode' = code
  /\ pc' = "exited"

\* -------------------------------------------------------------------- main

\* The argument-count test with extra arguments let through.
ArgCountOKAtLeast(args) == Len(args) >= 4

\* The argument-count test of main.
ArgCountOK(args) == Len(args) = 4

nodeIP == osArgs[2]
namespaceHex == osArgs[3]
prompt == osArgs[4]

\* main, lines 17-24: create the context, check the argument count.
ParseArgs ==
  /\ pc = "main"
  /\ \/ /\ ~ArgCountOK(osArgs)
        /\ LogFatal("args", "Usage: go run main.go <nodeIP> <namespace> <prompt>")
        /\ UNCHANGED passed
     \/ /\ ArgCountOK(osArgs)
        /\ pc' = "NewClient"
        /\ passed' = Append(passed, "args")
        /\ UNCHANGED <<exitCode, ctxCancelled, clientClosed, failed, logs>>
  /\ UNCHANGED <<inputs, clientOpen, namespaceID, createdBlob, height,
                 fetchedBlob, calls, openaiClients, requests, promptAnswer>>

\* main, lines 28-32: open the node client and defer its Close.
NewClient ==
  /\ pc = "NewClient"
  /\ calls' = Append(calls, "connect")
  /\ \/ /\ LogFatal("NewClient", "Failed to create client: %v")
        /\ UNCHANGED <<clientOpen, passed>>
     \/ /\ clientOpen' = TRUE
        /\ pc' = "createNamespaceID"
        /\ passed' = Append(passed, "NewClient")
        /\ UNCHANGED <<exitCode, ctxCancelled, clientClosed, failed, logs>>
  /\ UNCHANGED <<inputs, namespaceID, createdBlob, height, fetchedBlob,
                 openaiClients, requests, promptAnswer>>

\* The namespace step with its error only logged (log.Printf): main goes on
\* with the namespace createNamespaceID returned.
CreateNamespaceIDContinue ==
  /\ pc = "createNamespaceID"
  /\ LET r == createNamespaceID(namespaceHex)
     IN /\ namespaceID' = r.ns
        /\ pc' = "createAndSubmitBlob"
        /\ \/ /\ r.err
              /\ logs' = Append(logs, Line(FALSE, "Failed to decode namespace: %v"))
              /\ failed' = Append(failed, "createNamespaceID")
              /\ UNCHANGED passed
           \/ /\ ~r.err
              /\ passed' = Append(passed, "createNamespaceID")
              /\ UNCHANGED <<failed, logs>>
  /\ UNCHANGED <<inputs, exitCode, ctxCancelled, clientOpen, clientClosed,
                 createdBlob, height, fetchedBlob, calls, openaiClients,
                 requests, promptAnswer>>

\* main, lines 36-39: decode the namespace argument.
CreateNamespaceID ==
  /\ pc = "createNamespaceID"
  /\ LET r == createNamespaceID(namespaceHex)
     IN \/ /\ r.err
           /\ LogFatal("createNamespaceID", "Failed to decode namespace: %v")
           /\ UNCHANGED <<namespaceID, passed>>
        \/ /\ ~r.err
           /\ namespaceID' = r.ns
           /\ pc' = "createAndSubmitBlob"
           /\ passed' = Append(passed, "createNamespaceID")
           /\ UNCHANGED <<exitCode, ctxCancelled, clientClosed, failed, logs>>
  /\ UNCHANGED <<inputs, clientOpen, createdBlob, height, fetchedBlob, calls,
                 openaiClients, requests, promptAnswer>>

\* The submit step with a retry edge: a failed submit is issued again.
CreateAndSubmitBlobRetry ==
  /\ pc = "createAndSubmitBlob"
  /\ LET b == NewBlobV0(namespaceID, StringToBytes(prompt))
     IN \/ /\ b.err
           /\ LogFatal("NewBlobV0", "Failed to create blob: %w")
           /\ UNCHANGED <<createdBlob, height, calls, passed>>
        \/ /\ ~b.err
           /\ calls' = Append(calls, "submit")
           /\ UNCHANGED <<createdBlob, height, pc, exitCode, ctxCancelled,
                          clientClosed, passed, failed, logs>>
        \/ /\ ~b.err
           /\ calls' = Append(calls, "submit")
           /\ \E h \in 1..MaxHeight : height' = h
           /\ createdBlob' = b.blob
           /\ logs' = logs \o <<Line(FALSE, "Blob submitted successfully at height: %d! "),
                                Line(FALSE, "Explorer link: https://arabica.celenium.io/block/%d ")>>
           /\ pc' = "BlobGet"
           /\ passed' = passed \o <<"NewBlobV0", "Submit">>
           /\ UNCHANGED <<exitCode, ctxCancelled, clientClosed, failed>>
  /\ UNCHANGED <<inputs, clientOpen, namespaceID, fetchedBlob, openaiClients,
                 requests, promptAnswer>>

\* main, lines 42-45, with createAndSubmitBlob: build the blob from the
\* prompt, submit it once, log the height and the explorer link.
CreateAndSubmitBlob ==
  /\ pc = "createAndSubmitBlob"
  /\ LET b == NewBlobV0(namespaceID, StringToBytes(prompt))
     IN \/ /\ b.err
           /\ LogFatal("NewBlobV0", "Failed to create blob: %w")
           /\ UNCHANGED <<createdBlob, height, calls, passed>>
        \/ /\ ~b.err
           /\ calls' = Append(calls, "submit")
           /\ LogFatal("Submit", "Failed to submit blob: %v")
           /\ passed' = Append(passed, "NewBlobV0")
           /\ UNCHANGED <<createdBlob, height>>
        \/ /\ ~b.err
           /\ calls' = Append(calls, "submit")
           /\ \E h \in 1..MaxHeight : height' = h
           /\ createdBlob' = b.blob
           /\ logs' = logs \o <<Line(FALSE, "Blob submitted successfully at height: %d! "),
                                Line(FALSE, "Explorer link: https://arabica.celenium.io/block/%d ")>>
           /\ pc' = "BlobGet"
           /\ passed' = passed \o <<"NewBlobV0", "Submit">>
           /\ UNCHANGED <<exitCode, ctxCancelled, clientClosed, failed>>
  /\ UNCHANGED <<inputs, clientOpen, namespaceID, fetchedBlob, openaiClients,
                 requests, promptAnswer>>

\* The blobs the node may answer a Get under namespace ns with.
NodeBlobs(ns) == {NewBlobV0(ns, d).blob : d \in Prompts \ {<<>>}}

\* main, lines 48-51: fetch the blob back by height, namespace, commitment.
BlobGet ==
  /\ pc = "BlobGet"
  /\ calls' = Append(calls, "fetch")
  /\ \/ /\ LogFatal("Get", "Failed to fetch blob: %v")
        /\ UNCHANGED <<fetchedBlob, passed>>
     \/ /\ \E b \in NodeBlobs(namespaceID) : fetchedBlob' = b
        /\ pc' = "gpt3"
        /\ passed' = Append(passed, "Get")
        /\ UNCHANGED <<exitCode, ctxCancelled, clientClosed, failed, logs>>
  /\ UNCHANGED <<inputs, clientOpen, namespaceID, createdBlob, height,
                 openaiClients, requests, promptAnswer>>

\* -------------------------------------------------------------------- gpt3

\* The credential test left out.
KeyMissingUnchecked(openAIKey) == FALSE

\* The credential test of gpt3.
KeyMissing(openAIKey) == openAIKey = <<>>

\* The request with a system message put before the user message.
ChatCompletionRequestWithSystem(msg) ==
  [model |-> "gpt-3.5-turbo",
   messages |-> <<[role |-> "system", content |-> <<>>],
                  [role |-> "user", content |-> msg]>>]

\* The request gpt3 builds for msg.
ChatCompletionRequest(msg) ==
  [model |-> "gpt-3.5-turbo",
   messages |-> <<[role |-> "user", content |-> msg]>>]

\* main's call of gpt3: its argument.
Gpt3Arg == BytesToString(fetchedBlob.data)

\* main, lines 53-57, gpt3 lines 103-106: no credential.
Gpt3MissingKey ==
  /\ KeyMissing(Getenv(env))
  /\ logs' = logs \o <<Line(FALSE, "Fetched blob: %s"),
                       Line(TRUE, "Failed to process message with GPT-3: %v")>>
  /\ failed' = Append(failed, "gpt3")
  /\ exitCode' = 1
  /\ pc' = "exited"
  /\ UNCHANGED <<ctxCancelled, clientClosed, calls, passed, openaiClients,
                 requests, promptAnswer>>

\* The failed request with its error only logged (log.Printf): main goes on
\* to log the empty answer and returns.
Gpt3RequestErrorLogged ==
  /\ ~KeyMissing(Getenv(env))
  /\ openaiClients' = openaiClients + 1
  /\ requests' = Append(requests, ChatCompletionRequest(Gpt3Arg))
  /\ calls' = Append(calls, "complete")
  /\ logs' = logs \o <<Line(FALSE, "Fetched blob: %s"),
                       Line(FALSE, "Failed to process message with GPT-3: %v"),
                       Line(FALSE, "GPT-3 response: %s")>>
  /\ failed' = Append(failed, "gpt3")
  /\ EndWith(0)
  /\ UNCHANGED <<passed, promptAnswer>>

\* main, lines 53-57, gpt3 lines 107-123: the request fails.
Gpt3RequestError ==
  /\ ~KeyMissing(Getenv(env))
  /\ openaiClients' = openaiClients + 1
  /\ requests' = Append(requests, ChatCompletionRequest(Gpt3Arg))
  /\ calls' = Append(calls, "complete")
  /\ logs' = logs \o <<Line(FALSE, "Fetched blob: %s"),
                       Line(TRUE, "Failed to process message with GPT-3: %v")>>
  /\ failed' = Append(failed, "gpt3")
  /\ exitCode' = 1
  /\ pc' = "exited"
  /\ UNCHANGED <<ctxCancelled, clientClosed, passed, promptAnswer>>

\* main, lines 53-60, gpt3 lines 107-125: the request returns choices; the
\* first one is the answer.  With no choice, resp.Choices[0] panics.
Gpt3Response ==
  /\ ~KeyMissing(Getenv(env))
  /\ openaiClients' = openaiClients + 1
  /\ requests' = Append(requests, ChatCompletionRequest(Gpt3Arg))
  /\ calls' = Append(calls, "complete")
  /\ \E choices \in Answers :
       \/ /\ Len(choices) = 0
          /\ logs' = Append(logs, Line(FALSE, "Fetched blob: %s"))
          /\ failed' = Append(failed, "gpt3")
          /\ EndWith(2)
          /\ UNCHANGED <<passed, promptAnswer>>
       \/ /\ Len(choices) > 0
          /\ promptAnswer' = choices[1]
          /\ logs' = logs \o <<Line(FALSE, "Fetched blob: %s"),
                               Line(FALSE, "GPT-3 response: %s")>>
          /\ passed' = Append(passed, "gpt3")
          /\ EndWith(0)
          /\ UNCHANGED failed

\* main, lines 53-60: the completion step and the end of main.
Gpt3 ==
  /\ pc = "gpt3"
  /\ \/ Gpt3MissingKey
     \/ Gpt3RequestError
     \/ Gpt3Response
  /\ UNCHANGED <<inputs, clientOpen, namespaceID, createdBlob, height, fetchedBlob>>

Next ==
  \/ ParseArgs
  \/ NewClient
  \/ CreateNamespaceID
  \/ CreateAndSubmitBlob
  \/ BlobGet
  \/ Gpt3

Spec == Init /\ [][Next]_vars

\* ------------------------------------------------- namespace decoding alone

\* The state main is in when it calls createNamespaceID (arguments parsed,
\* client open), for every hex string of HexInputs as the namespace argument.
InitNS ==
  /\ \E n \in NodeIPs, h \in HexInputs : osArgs = ArgVector(n, h, <<104>>, 3)
  /\ env = [set |-> TRUE, value |-> <<107>>]
  /\ pc = "createNamespaceID"
  /\ exitCode = -1
  /\ ctxCancelled = FALSE
  /\ clientOpen = TRUE
  /\ clientClosed = FALSE
  /\ namespaceID = <<>>
  /\ createdBlob = NoBlob
  /\ height = 0
  /\ fetchedBlob = NoBlob
  /\ calls = <<"connect">>
  /\ passed = <<"args", "NewClient">>
  /\ failed = <<>>
  /\ openaiClients = 0
  /\ requests = <<>>
  /\ promptAnswer = <<>>
  /\ logs = <<>>

NextNS == CreateNamespaceID

SpecNS == InitNS /\ [][NextNS]_vars

\* ------------------------------------------------------------------- claims

NumArgs == Len(osArgs) - 1
KeyAbsent == (~env.set) \/ env.value = <<>>
Exited == pc = "exited"
FatalLines == {i \in 1..Len(logs) : logs[i].fatal}
AllSteps ==
  <<"args", "NewClient", "createNamespaceID", "NewBlobV0", "Submit", "Get", "gpt3">>
AllCalls == <<"connect", "submit", "fetch", "complete">>
IsPrefix(a, b) == Len(a) <= Len(b) /\ a = SubSeq(b, 1, Len(a))
Issued(c) == \E i \in 1..Len(calls) : calls[i] = c
Passed(st) == \E i \in 1..Len(passed) : passed[i] = st

\* C1: in a run with three arguments and OPENAI_KEY unset or empty, the
\* missing credential ends the process before any network call: no client
\* connection, no submit and no fetch is ever issued.
C1_NoNetworkCallWithoutKey ==
  (NumArgs = 3 /\ KeyAbsent) => calls = <<>>

\* C2: once the client has been opened, client.Close has run by the time the
\* process has exited, on every path.
C2_ClosedOnEveryExit ==
  (Exited /\ clientOpen) => clientClosed

\* C3: with a number of positional arguments other than three, the process
\* logs the usage line and exits non-zero, and no network call is attempted.
C3_UsageNoNetwork ==
  NumArgs # 3 =>
    /\ pc \in {"main", "exited"}
    /\ calls = <<>>
    /\ ~clientOpen
    /\ openaiClients = 0
    /\ requests = <<>>
    /\ Exited =>
         /\ exitCode = 1
         /\ logs = <<Line(TRUE, "Usage: go run main.go <nodeIP> <namespace> <prompt>")>>

C3_Witness ==
  Exited /\ NumArgs = 5 /\ exitCode = 1

\* C4: the steps run in the fixed order decode, submit, fetch, completion;
\* submit, fetch and completion request are each issued at most once, a
\* fetch only after a successful submit, a completion request only after a
\* successful fetch.
C4_LinearOrder ==
  /\ IsPrefix(calls, AllCalls)
  /\ IsPrefix(passed, AllSteps)
  /\ Issued("submit") => Passed("createNamespaceID")
  /\ Issued("fetch") => Passed("Submit")
  /\ Issued("complete") => Passed("Get")

C4_Witness ==
  Exited /\ calls = AllCalls

\* C5: the exit status is 0 only if every step succeeded; a run in which a
\* step failed ends with a non-zero status.
C5_ExitZeroOnlyOnSuccess ==
  /\ exitCode = 0 => (passed = AllSteps /\ failed = <<>>)
  /\ Exited => exitCode \in {0, 1, 2}
  /\ (Exited /\ failed # <<>>) => exitCode # 0
  /\ failed # <<>> => Exited

C5_Witness ==
  exitCode = 0 /\ passed = AllSteps

\* The network calls issued when step st fails.
CallsAtFailure(st) ==
  CASE st = "args" -> {<<>>}
    [] st = "NewClient" -> {<<"connect">>}
    [] st = "createNamespaceID" -> {<<"connect">>}
    [] st = "NewBlobV0" -> {<<"connect">>}
    [] st = "Submit" -> {<<"connect", "submit">>}
    [] st = "Get" -> {<<"connect", "submit", "fetch">>}
    [] st = "gpt3" -> {<<"connect", "submit", "fetch">>, AllCalls}

\* C6: the process terminates at the step that fails: one step fails at
\* most, and the calls ever issued are those issued up to that step.
C6_StopAtFirstFailure ==
  failed # <<>> =>
    /\ Len(failed) = 1
    /\ Exited
    /\ calls \in CallsAtFailure(failed[1])
    /\ passed = SubSeq(AllSteps, 1, Len(passed))
    /\ AllSteps[Len(passed) + 1] = failed[1]

C6_Witness ==
  Exited /\ failed = <<"Submit">> /\ calls = <<"connect", "submit">>

\* C7: a completion request holds exactly one message, of the user role,
\* whose content is the fetched blob's payload; when the node returned the
\* submitted blob, the content is the prompt argument byte for byte.
C7_RequestIsFetchedPayload ==
  requests # <<>> =>
    /\ Len(requests) = 1
    /\ Len(requests[1].messages) = 1
    /\ requests[1].messages[1].role = "user"
    /\ requests[1].messages[1].content = fetchedBlob.data
    /\ fetchedBlob = createdBlob => requests[1].messages[1].content = osArgs[4]

C7_Witness ==
  /\ requests # <<>>
  /\ fetchedBlob = createdBlob
  /\ osArgs[4] = <<104, 255>>

\* A hex string in lower case without its leading "00" pairs.
ToLower(c) == IF c >= 65 /\ c <= 90 THEN c + 32 ELSE c
RECURSIVE StripZeroBytes(_)
StripZeroBytes(h) ==
  IF Len(h) >= 2 /\ h[1] = 48 /\ h[2] = 48
  THEN StripZeroBytes(SubSeq(h, 3, Len(h)))
  ELSE h
Canonical(h) == StripZeroBytes([i \in 1..Len(h) |-> ToLower(h[i])])

\* Every hex string createNamespaceID accepts, with its namespace and its
\* canonical form.
Accepted ==
  {[hex |-> h, ns |-> createNamespaceID(h).ns, canon |-> Canonical(h)] :
     h \in {x \in HexInputs : ~createNamespaceID(x).err}}
NamespaceDecoded == Passed("createNamespaceID")

\* C8 as stated: two different accepted hex strings never decode to the same
\* namespace.
C8_Injective ==
  NamespaceDecoded =>
    \A a \in Accepted : a.hex # osArgs[3] => a.ns # namespaceID

\* C8 as amended: two accepted hex strings decode to the same namespace
\* exactly when they are equal up to letter case and leading zero bytes.
C8_InjectiveUpToCaseAndZeros ==
  NamespaceDecoded =>
    LET c == Canonical(osArgs[3])
    IN \A a \in Accepted : (a.ns = namespaceID) <=> (a.canon = c)

C8_Witness ==
  /\ NamespaceDecoded
  /\ osArgs[3] = <<48, 48, 97, 48, 48, 48>>
  /\ \E a \in Accepted : a.hex # osArgs[3] /\ a.ns = namespaceID
  /\ \E a \in Accepted : a.ns # namespaceID

\* C9: gpt3 entered with OPENAI_KEY unset or empty constructs no completion
\* client and sends no request, and the run ends failed at that step.
C9_NoRequestWithoutKey ==
  KeyAbsent =>
    /\ openaiClients = 0
    /\ requests = <<>>
    /\ ~Issued("complete")
    /\ (Exited /\ Passed("Get")) =>
         /\ failed = <<"gpt3">>
         /\ exitCode = 1
         /\ logs[Len(logs)] = Line(TRUE, "Failed to process message with GPT-3: %v")

C9_Witness ==
  /\ ~env.set
  /\ Exited
  /\ failed = <<"gpt3">>
  /\ calls = <<"connect", "submit", "fetch">>

\* C10: a run that does not complete successfully ends with exactly one
\* error line logged by the program, written last, before the process ends.
C10_OneErrorLinePerFailure ==
  (Exited /\ exitCode # 0) =>
    /\ Cardinality(FatalLines) = 1
    /\ logs[Len(logs)].fatal

====
